---- MODULE Spec2Model ----
(***************************************************************************)
(* Request orchestration of the FutureValueCalculator widget               *)
(* (future-value-calculator.tsx): debounce, rate gate, in-memory cache     *)
(* with eviction, in-flight guard and queued retry.                        *)
(*                                                                         *)
(* One step of the model is one run-to-completion task of the JavaScript   *)
(* event loop: a React commit with its effects, a timer callback, or the   *)
(* continuation of fetchCalculation after its awaits.  Date.now() is read   *)
(* as one value `now` inside a task; time passes between tasks (Tick).      *)
(***************************************************************************)
EXTENDS Integers, Sequences, FiniteSets, TLC

\* ---------------------------------------------------------------- constants
MIN_REQUEST_INTERVAL == 1000
DEBOUNCE_DELAY == 500
CACHE_DURATION == 10 * 60 * 1000
MAX_CACHE_SIZE == 100

\* ------------------------------------------------------------------- bounds
\* Date.now() at mount (any value >= MIN_REQUEST_INTERVAL behaves alike,
\* since lastRequestTimeRef starts at 0).
StartTime == 5000
\* number of input changes the user makes
MaxChanges == 2
\* number of clock advances
MaxTicks == 3
\* number of clock advances left to a run that starts from the filled cache
CacheRunTicks == 2

\* amounts by which the clock may advance between two tasks
TickSteps == {1, MIN_REQUEST_INTERVAL - 1, CACHE_DURATION - DEBOUNCE_DELAY - 1}

\* values the sliders are moved to (cost and rate stay at their defaults)
YearValues == {10, 11}

\* "undefined" for an optional JSON field, "none" for a history value
Absent == -1
None == Absent

VARIABLES
    now,                  \* Date.now()
    mounted,              \* useState(false), line 36
    unmounted,            \* the component has been torn down
    inputs,               \* [cost, rate, yrs]: currentCost, inflationRate, years
    result,               \* useState<CalculationResult | null>
    loading,              \* useState(false)
    error,                \* useState<string | null>
    cache,                \* cacheRef: Map in insertion order, a sequence of entries
    debounceTimer,        \* the timer debounceTimerRef points to, if still pending
    debounceTimers,       \* pending setTimeout callbacks of line 176
    retryTimers,          \* pending setTimeout callbacks of line 149
    lastRequestTimeRef,
    requestQueueRef,
    pendingRequestRef,
    inflight,             \* fetchCalculation calls suspended at `await fetch`
    lastCall,             \* history: the most recent call of fetchCalculation
    sent,                 \* history: initiation time of the last request, gap to the one before
    changes,              \* history: number of input changes
    ticks                 \* history: number of clock advances

vars == <<now, mounted, unmounted, inputs, result, loading, error, cache,
          debounceTimer, debounceTimers, retryTimers, lastRequestTimeRef,
          requestQueueRef, pendingRequestRef, inflight, lastCall, sent, changes, ticks>>

Null == [null |-> TRUE]
NoTimer == [pending |-> FALSE]

Min(a, b) == IF a <= b THEN a ELSE b

\* ------------------------------------------------------------ pure helpers
\* `${cost}-${rate}-${yrs}`: the three numbers in order, "-" between them
getCacheKey(cost, rate, yrs) == <<cost, "-", rate, "-", yrs>>

\* isCacheValid with a fault, which the properties must reject: the boundary included
isCacheValidInclusive(timestamp) == now - timestamp <= CACHE_DURATION

\* lines 46-48
isCacheValid(timestamp) == now - timestamp < CACHE_DURATION

\* Map.get: position of the entry under key, 0 if there is none
CacheIndex(c, key) ==
    IF \E i \in 1..Len(c) : c[i].key = key
    THEN CHOOSE i \in 1..Len(c) : c[i].key = key
    ELSE 0

\* Map.set: overwrite in place, or append as the newest entry
CacheSet(c, key, entry) ==
    LET i == CacheIndex(c, key)
        e == [key |-> key, result |-> entry.result,
              timestamp |-> entry.timestamp, hitCount |-> entry.hitCount]
    IN IF i # 0 THEN [c EXCEPT ![i] = e] ELSE Append(c, e)

\* ScanOldest with a fault, which the properties must reject: oldestTime not lowered when a candidate is found
RECURSIVE ScanOldestStale(_, _, _, _)
ScanOldestStale(c, i, oldestTime, oldestKey) ==
    IF i > Len(c) THEN oldestKey
    ELSE IF c[i].timestamp < oldestTime
         THEN ScanOldestStale(c, i + 1, oldestTime, i)
         ELSE ScanOldestStale(c, i + 1, oldestTime, oldestKey)

\* the scan of lines 120-128: position of the first entry whose timestamp is
\* strictly below every timestamp seen so far, starting from Date.now()
RECURSIVE ScanOldest(_, _, _, _)
ScanOldest(c, i, oldestTime, oldestKey) ==
    IF i > Len(c) THEN oldestKey
    ELSE IF c[i].timestamp < oldestTime
         THEN ScanOldest(c, i + 1, c[i].timestamp, i)
         ELSE ScanOldest(c, i + 1, oldestTime, oldestKey)

\* Map.delete of position i
CacheDelete(c, i) == SubSeq(c, 1, i - 1) \o SubSeq(c, i + 1, Len(c))

\* Evict with a fault, which the properties must reject: the size test off by one
EvictLate(c) ==
    IF Len(c) > MAX_CACHE_SIZE + 1
    THEN LET oldestKey == ScanOldest(c, 1, now, 0)
         IN IF oldestKey # 0 THEN CacheDelete(c, oldestKey) ELSE c
    ELSE c

\* lines 119-133
Evict(c) ==
    IF Len(c) > MAX_CACHE_SIZE
    THEN LET oldestKey == ScanOldest(c, 1, now, 0)
         IN IF oldestKey # 0 THEN CacheDelete(c, oldestKey) ELSE c
    ELSE c

\* JavaScript truthiness of an optional number (undefined and 0 are falsy)
Truthy(x) == x # Absent /\ x # 0

\* a || b for numbers
OrElse(a, b) == IF Truthy(a) THEN a ELSE b

\* a || b for strings (undefined is modelled as the empty string, both falsy)
OrElseStr(a, b) == IF a # "" THEN a ELSE b

\* a value of the error state that is not null
Err(message) == [message |-> message]

\* data.current_cost, data.inflation_rate, data.no_years: the service echoes the
\* request's value x together with the amount, or omits all four
Echo(r, x) == IF r.future_amount # Absent THEN x ELSE Absent

\* response.ok
ResponseOk(r) == r.http >= 200 /\ r.http <= 299

\* ---------------------------------------------------------------- responses
\* net: fetch() resolved (FALSE: it rejected); parses: response.json() resolved.
\* A body carries an amount only when it reports no error, and a status_msg
\* only along with a status other than 200.
Responses ==
    {r \in [net : {TRUE}, parses : {TRUE}, http : {200, 429, 500},
            status : {Absent, 0, 200, 429, 500}, status_msg : {"", "Server error"},
            future_amount : {Absent, 4476000}] :
        /\ r.future_amount # Absent => (r.http = 200 /\ r.status \in {Absent, 0, 200})
        /\ r.status_msg # "" => r.status \in {0, 429, 500}}
    \cup [net : {TRUE}, parses : {FALSE}, http : {200, 429, 500},
          status : {Absent}, status_msg : {""}, future_amount : {Absent}]
    \cup [net : {FALSE}, parses : {FALSE}, http : {0},
          status : {Absent}, status_msg : {""}, future_amount : {Absent}]

RATE_LIMIT_MSG == "Rate limit exceeded. Please wait before making another request."
FAILED_MSG == "Failed to calculate future value"
NETWORK_MSG == "Failed to fetch"
PARSE_MSG == "Unexpected token in JSON"

\* ---------------------------------------------------------------------- Init
Init ==
    /\ now = StartTime
    /\ mounted = FALSE
    /\ unmounted = FALSE
    /\ inputs = [cost |-> 2500000, rate |-> 6, yrs |-> 10]
    /\ result = Null
    /\ loading = FALSE
    /\ error = Null
    /\ cache = <<>>
    /\ debounceTimer = NoTimer
    /\ debounceTimers = {}
    /\ retryTimers = {}
    /\ lastRequestTimeRef = 0
    /\ requestQueueRef = FALSE
    /\ pendingRequestRef = FALSE
    /\ inflight = <<>>
    /\ lastCall = [n |-> 0, src |-> "none", args |-> inputs, at |-> None, outcome |-> "none"]
    /\ sent = [last |-> None, gap |-> None]
    /\ changes = 0
    /\ ticks = 0

\* ---------------------------------------------------------- fetchCalculation
\* The synchronous part of a call, lines 51-91, up to `await fetch`.
\* a: the arguments (cost, rate, yrs); every call site passes the
\* currentCost, inflationRate, years of the render that made the callback, so
\* a is also what the callback's closure holds for the retry of line 150.
Called(src, a, outcome) ==
    lastCall' = [n |-> lastCall.n + 1, src |-> src, args |-> a, at |-> now, outcome |-> outcome]

\* InFlightGuard with a fault, which the properties must reject: the guard forgotten
InFlightGuardOff == FALSE

\* lines 52-54
InFlightGuard == pendingRequestRef

\* RateGateBlocks with a fault, which the properties must reject: a call
\* exactly MIN_REQUEST_INTERVAL after the last one is still held back
RateGateBlocksAtBoundary ==
    LET timeSinceLastRequest == now - lastRequestTimeRef
    IN timeSinceLastRequest <= MIN_REQUEST_INTERVAL

\* lines 66-69
RateGateBlocks ==
    LET timeSinceLastRequest == now - lastRequestTimeRef
    IN timeSinceLastRequest < MIN_REQUEST_INTERVAL

\* RecordHit with a fault, which the properties must reject: a hit also
\* refreshes the entry's timestamp
RecordHitRefreshes(c, i) ==
    [c EXCEPT ![i].hitCount = @ + 1, ![i].timestamp = now]

\* line 60: cached.hitCount++
RecordHit(c, i) == [c EXCEPT ![i].hitCount = @ + 1]

\* ServeCached with a fault, which the properties must reject: the error left
\* as it was
ServeCachedKeepsError(i) ==
    /\ cache' = RecordHit(cache, i)
    /\ result' = cache[i].result
    /\ loading' = FALSE
    /\ UNCHANGED error

\* lines 58-64: the valid entry at position i is served
ServeCached(i) ==
    /\ cache' = RecordHit(cache, i)
    /\ result' = cache[i].result
    /\ error' = Null
    /\ loading' = FALSE

fetchCalculation(src, a) ==
    LET cacheKey == getCacheKey(a.cost, a.rate, a.yrs)
        i == CacheIndex(cache, cacheKey)
    IN
    IF InFlightGuard
    THEN /\ Called(src, a, "dropped")
         /\ UNCHANGED <<result, loading, error, cache, lastRequestTimeRef,
                        requestQueueRef, pendingRequestRef, inflight, sent>>
    ELSE IF i # 0 /\ isCacheValid(cache[i].timestamp)
    THEN /\ ServeCached(i)
         /\ Called(src, a, "hit")
         /\ UNCHANGED <<lastRequestTimeRef, requestQueueRef, pendingRequestRef, inflight, sent>>
    ELSE IF RateGateBlocks
    THEN /\ requestQueueRef' = TRUE
         /\ Called(src, a, "deferred")
         /\ UNCHANGED <<result, loading, error, cache, lastRequestTimeRef,
                        pendingRequestRef, inflight, sent>>
    ELSE /\ pendingRequestRef' = TRUE
         /\ loading' = TRUE
         /\ error' = Null
         /\ inflight' = Append(inflight, [args |-> a, sentAt |-> now])
         /\ sent' = [last |-> now,
                     gap |-> IF sent.last = None THEN None ELSE now - sent.last]
         /\ Called(src, a, "sent")
         /\ UNCHANGED <<result, cache, lastRequestTimeRef, requestQueueRef>>

\* ------------------------------------------------------------------- effects
\* clearTimeout(debounceTimerRef.current): the timer the ref points to is
\* taken out of the pending ones (no effect when it has fired or is unset)
ClearDebounce == debounceTimers \ {debounceTimer}

\* ScheduleDebounce with a fault, which the properties must reject: the
\* pending timer is not cancelled before the new one is set
ScheduleDebounceNoCancel(a) ==
    LET timer == [pending |-> TRUE, due |-> now + DEBOUNCE_DELAY, args |-> a]
    IN /\ debounceTimers' = debounceTimers \cup {timer}
       /\ debounceTimer' = timer

\* lines 172-178 (and the cleanup of lines 180-184 that runs before them on
\* a re-run of the effect)
ScheduleDebounce(a) ==
    LET timer == [pending |-> TRUE, due |-> now + DEBOUNCE_DELAY, args |-> a]
    IN /\ debounceTimers' = ClearDebounce \cup {timer}
       /\ debounceTimer' = timer

\* The commit after setMounted(true): the effect of lines 163-167 calls
\* fetchCalculation, then the effect of lines 169-185 starts the debounce timer.
Mount ==
    /\ ~mounted
    /\ mounted' = TRUE
    /\ fetchCalculation("immediate", inputs)
    /\ ScheduleDebounce(inputs)
    /\ UNCHANGED <<now, unmounted, inputs, retryTimers, changes, ticks>>

\* A slider or text box sets a new value: re-render with a new fetchCalculation
\* (its deps changed), so both effects that depend on it run again: cleanup of
\* the debounce effect, the immediate call of line 165, a new debounce timer.
InputChange(y) ==
    /\ mounted /\ ~unmounted
    /\ changes < MaxChanges
    /\ y # inputs.yrs
    /\ inputs' = [inputs EXCEPT !.yrs = y]
    /\ fetchCalculation("immediate", inputs')
    /\ ScheduleDebounce(inputs')
    /\ changes' = changes + 1
    /\ UNCHANGED <<now, mounted, unmounted, retryTimers, ticks>>

\* the callback of line 176 runs, for the pending timer t
DebounceFire(t) ==
    /\ t \in debounceTimers
    /\ now >= t.due
    /\ fetchCalculation("debounce", t.args)
    /\ debounceTimers' = debounceTimers \ {t}
    /\ debounceTimer' = IF debounceTimer = t THEN NoTimer ELSE debounceTimer
    /\ UNCHANGED <<now, mounted, unmounted, inputs, retryTimers, changes, ticks>>

\* the callback of line 149 runs
RetryFire(t) ==
    /\ t \in retryTimers
    /\ now >= t.due
    /\ fetchCalculation("retry", t.args)
    /\ retryTimers' = retryTimers \ {t}
    /\ UNCHANGED <<now, mounted, unmounted, inputs, debounceTimer, debounceTimers,
                   changes, ticks>>

\* teardown: the cleanup of lines 180-184
Unmount ==
    /\ mounted /\ ~unmounted
    /\ unmounted' = TRUE
    /\ debounceTimers' = ClearDebounce
    /\ debounceTimer' = NoTimer
    /\ UNCHANGED <<now, mounted, inputs, result, loading, error, cache, retryTimers,
                   lastRequestTimeRef, requestQueueRef, pendingRequestRef, inflight,
                   lastCall, sent, changes, ticks>>

\* ------------------------------------------------------------------ response
\* Finally with a fault, which the properties must reject: the in-flight flag
\* left set
FinallyKeepsPending(f, last) ==
    /\ UNCHANGED pendingRequestRef
    /\ IF requestQueueRef
       THEN /\ requestQueueRef' = FALSE
            /\ LET retryTime == MIN_REQUEST_INTERVAL - (now - last)
               IN IF retryTime > 0
                  THEN retryTimers' = retryTimers \cup {[due |-> now + retryTime, args |-> f.args]}
                  ELSE retryTimers' = retryTimers
       ELSE UNCHANGED <<requestQueueRef, retryTimers>>

\* lines 142-154, with last the value of lastRequestTimeRef after try/catch
Finally(f, last) ==
    /\ pendingRequestRef' = FALSE
    /\ IF requestQueueRef
       THEN /\ requestQueueRef' = FALSE
            /\ LET retryTime == MIN_REQUEST_INTERVAL - (now - last)
               IN IF retryTime > 0
                  THEN retryTimers' = retryTimers \cup {[due |-> now + retryTime, args |-> f.args]}
                  ELSE retryTimers' = retryTimers
       ELSE UNCHANGED <<requestQueueRef, retryTimers>>

\* Catch with a fault, which the properties must reject: the loading flag left set
CatchKeepsLoading(f, errorMessage) ==
    /\ error' = Err(errorMessage)
    /\ UNCHANGED <<loading, result, cache, lastRequestTimeRef>>
    /\ Finally(f, lastRequestTimeRef)

\* lines 138-141
Catch(f, errorMessage) ==
    /\ error' = Err(errorMessage)
    /\ loading' = FALSE
    /\ UNCHANGED <<result, cache, lastRequestTimeRef>>
    /\ Finally(f, lastRequestTimeRef)

\* RateLimited with a fault, which the properties must reject: the spacing clock restarted by a 429
RateLimitedResetsClock(f) ==
    /\ error' = Err(RATE_LIMIT_MSG)
    /\ loading' = FALSE
    /\ lastRequestTimeRef' = now
    /\ UNCHANGED <<result, cache>>
    /\ Finally(f, now)

\* lines 95-100 (the return runs the finally block)
RateLimited(f) ==
    /\ error' = Err(RATE_LIMIT_MSG)
    /\ loading' = FALSE
    /\ UNCHANGED <<result, cache, lastRequestTimeRef>>
    /\ Finally(f, lastRequestTimeRef)

\* Success with a fault, which the properties must reject: the entry stamped
\* with the time the request was sent
SuccessStampsSendTime(f, r) ==
    LET a == f.args
        calculationResult ==
            [current_cost |-> OrElse(Echo(r, a.cost), a.cost),
             inflation_rate |-> OrElse(Echo(r, a.rate), a.rate),
             no_years |-> OrElse(Echo(r, a.yrs), a.yrs),
             future_amount |-> OrElse(r.future_amount, 0)]
        cacheKey == getCacheKey(a.cost, a.rate, a.yrs)
    IN /\ cache' = Evict(CacheSet(cache, cacheKey,
                         [result |-> calculationResult, timestamp |-> f.sentAt, hitCount |-> 1]))
       /\ result' = calculationResult
       /\ lastRequestTimeRef' = now
       /\ loading' = FALSE
       /\ UNCHANGED error
       /\ Finally(f, now)

\* lines 106-137
Success(f, r) ==
    LET a == f.args
        calculationResult ==
            [current_cost |-> OrElse(Echo(r, a.cost), a.cost),
             inflation_rate |-> OrElse(Echo(r, a.rate), a.rate),
             no_years |-> OrElse(Echo(r, a.yrs), a.yrs),
             future_amount |-> OrElse(r.future_amount, 0)]
        cacheKey == getCacheKey(a.cost, a.rate, a.yrs)
    IN /\ cache' = Evict(CacheSet(cache, cacheKey,
                         [result |-> calculationResult, timestamp |-> now, hitCount |-> 1]))
       /\ result' = calculationResult
       /\ lastRequestTimeRef' = now
       /\ loading' = FALSE
       /\ UNCHANGED error
       /\ Finally(f, now)

\* The continuation of the call suspended at inflight[i], lines 93-154, when
\* the network answers with r.
Respond(i, r) ==
    /\ i \in 1..Len(inflight)
    /\ LET f == inflight[i]
       IN IF ~r.net THEN Catch(f, NETWORK_MSG)
          ELSE IF ~r.parses THEN Catch(f, PARSE_MSG)
          ELSE IF r.http = 429 \/ r.status = 429 THEN RateLimited(f)
          ELSE IF ~ResponseOk(r) \/ (Truthy(r.status) /\ r.status # 200)
               THEN Catch(f, OrElseStr(r.status_msg, FAILED_MSG))
          ELSE Success(f, r)
    /\ inflight' = CacheDelete(inflight, i)
    /\ UNCHANGED <<now, mounted, unmounted, inputs, debounceTimer, debounceTimers,
                   lastCall, sent,
                   changes, ticks>>

\* ---------------------------------------------------------------------- time
\* the earliest time a pending timer is due
NextDue ==
    LET dues == {t.due : t \in retryTimers}
                \cup {t.due : t \in debounceTimers}
    IN IF dues = {} THEN None ELSE CHOOSE d \in dues : \A e \in dues : d <= e

\* The clock advances by d, but not past the next timer: a due timer runs first.
\* The mount commit follows construction at once, so time passes after it.
Tick(d) ==
    /\ mounted
    /\ ticks < MaxTicks
    /\ NextDue = None \/ now < NextDue
    /\ now' = IF NextDue = None THEN now + d ELSE Min(now + d, NextDue)
    /\ ticks' = ticks + 1
    /\ UNCHANGED <<mounted, unmounted, inputs, result, loading, error, cache,
                   debounceTimer, debounceTimers, retryTimers, lastRequestTimeRef,
                   requestQueueRef, pendingRequestRef, inflight, lastCall, sent, changes>>

Next ==
    \/ Mount
    \/ \E y \in YearValues : InputChange(y)
    \/ \E t \in debounceTimers : DebounceFire(t)
    \/ \E t \in retryTimers : RetryFire(t)
    \/ Unmount
    \/ \E i \in 1..Len(inflight) : \E r \in Responses : Respond(i, r)
    \/ \E d \in TickSteps : Tick(d)

Spec == Init /\ [][Next]_vars

\* ------------------------------------------------- a widget with a full cache
\* The cache after a long session: n entries for n different costs of the cost
\* slider (100000 .. 10000000 in steps of 100000), fetched one after the other
\* MIN_REQUEST_INTERVAL apart.  Entries 1..rot were fetched again after they
\* had expired, so the oldest entry is at position rot + 1 of the Map's order.
\* The user then went back to the default inputs (entry 25), which were served
\* from the cache, and left the widget alone for CACHE_DURATION, so every
\* entry has expired.  Before that a call was deferred by the rate gate and
\* never retried, which has left requestQueueRef set.
FilledKey(i) == getCacheKey(100000 * i, 6, 10)

FilledTimestamp(i, n, rot) == StartTime + MIN_REQUEST_INTERVAL * ((i - 1 - rot) % n)

FilledCache(n, rot) ==
    [i \in 1..n |->
        [key |-> FilledKey(i),
         result |-> [current_cost |-> 100000 * i, inflation_rate |-> 6,
                     no_years |-> 10, future_amount |-> 4476000],
         timestamp |-> FilledTimestamp(i, n, rot),
         hitCount |-> 2]]

\* positions the oldest entry is at, minus one
CacheRotations == {0, 24}

InitCache ==
    \E n \in {MAX_CACHE_SIZE - 1, MAX_CACHE_SIZE} :
    \E rot \in CacheRotations :
    LET newest == StartTime + MIN_REQUEST_INTERVAL * (n - 1)
    IN /\ cache = FilledCache(n, rot)
       /\ lastRequestTimeRef = newest
       /\ now = newest + CACHE_DURATION
       /\ mounted = TRUE
       /\ unmounted = FALSE
       /\ inputs = [cost |-> 2500000, rate |-> 6, yrs |-> 10]
       /\ result = cache[25].result
       /\ loading = FALSE
       /\ error = Null
       /\ debounceTimer = NoTimer
       /\ debounceTimers = {}
       /\ retryTimers = {}
       /\ requestQueueRef = TRUE
       /\ pendingRequestRef = FALSE
       /\ inflight = <<>>
       /\ lastCall = [n |-> 1, src |-> "debounce", args |-> inputs,
                      at |-> newest + DEBOUNCE_DELAY, outcome |-> "hit"]
       /\ sent = [last |-> newest, gap |-> MIN_REQUEST_INTERVAL]
       /\ changes = 0
       /\ ticks = MaxTicks - CacheRunTicks

\* the mounted widget's steps
NextCache ==
    \/ \E y \in YearValues : InputChange(y)
    \/ \E t \in debounceTimers : DebounceFire(t)
    \/ \E t \in retryTimers : RetryFire(t)
    \/ Unmount
    \/ \E i \in 1..Len(inflight) : \E r \in Responses : Respond(i, r)
    \/ \E d \in TickSteps : Tick(d)

SpecCache == InitCache /\ [][NextCache]_vars

\* ------------------------------------------------------- the settling widget
\* The service answers every request with a success, every timer's time comes
\* and its callback runs, every response arrives.

\* responses with HTTP 200 and a body that parses, with status absent or 200
\* and the amount
SuccessResponses ==
    {r \in Responses : /\ r.net /\ r.parses /\ r.http = 200
                       /\ r.status \in {Absent, 200}
                       /\ r.future_amount # Absent}

\* the clock reaches the time of the earliest pending timer
RunToTimer ==
    /\ NextDue # None
    /\ now < NextDue
    /\ now' = NextDue
    /\ UNCHANGED <<mounted, unmounted, inputs, result, loading, error, cache,
                   debounceTimer, debounceTimers, retryTimers, lastRequestTimeRef,
                   requestQueueRef, pendingRequestRef, inflight, lastCall, sent,
                   changes, ticks>>

TimerFires ==
    \/ \E t \in debounceTimers : DebounceFire(t)
    \/ \E t \in retryTimers : RetryFire(t)

ResponseArrives ==
    \E i \in 1..Len(inflight) : \E r \in SuccessResponses : Respond(i, r)

NextLive ==
    \/ Mount
    \/ \E y \in YearValues : InputChange(y)
    \/ TimerFires
    \/ Unmount
    \/ ResponseArrives
    \/ \E d \in TickSteps : Tick(d)
    \/ RunToTimer

SpecLive ==
    /\ Init
    /\ [][NextLive]_vars
    /\ WF_vars(Mount)
    /\ WF_vars(RunToTimer)
    /\ WF_vars(TimerFires)
    /\ WF_vars(ResponseArrives)

\* =================================================================== claims

\* the entry the cache c holds under the key of the arguments a, as a set
EntriesFor(c, a) ==
    {c[i] : i \in {j \in 1..Len(c) : c[j].key = getCacheKey(a.cost, a.rate, a.yrs)}}

\* a step that calls fetchCalculation
CallStep == lastCall' # lastCall

\* a step that handles a successful response: the fetch ends and no error is
\* published (error is null while a fetch is in flight)
SuccessStep == inflight # <<>> /\ inflight' # inflight /\ error' = Null

\* C1: at most one network call is issued and not yet completed, and a call
\* of fetchCalculation made while pendingRequestRef is set issues none.
C1_AtMostOneOutstanding ==
    /\ [](Len(inflight) <= 1)
    /\ [][(CallStep /\ pendingRequestRef) => (inflight' = inflight /\ sent' = sent)]_vars

\* a call arrived during a fetch and was dropped
C1_Witness == lastCall.outcome = "dropped" /\ Len(inflight) = 1 /\ pendingRequestRef

\* C2: two consecutive network requests are initiated at least
\* MIN_REQUEST_INTERVAL apart, whatever the outcome of the earlier one.
C2_MinSpacing == sent.gap # None => sent.gap >= MIN_REQUEST_INTERVAL

\* C3: a request deferred by the rate gate is sent later without a further
\* input change; so while the widget is alive and its latest call is a
\* deferred one, something that will call fetchCalculation again is pending
\* (a timer, or a fetch whose completion schedules the retry).
C3_DeferredIsSentLater ==
    (lastCall.outcome = "deferred" /\ ~unmounted) =>
        \/ debounceTimers # {}
        \/ retryTimers # {}
        \/ inflight # <<>>

\* C4: input changes that follow each other within DEBOUNCE_DELAY produce one
\* call, made by the debounce timer; a change makes no call itself, and none
\* was made for the value it replaces.
C4_BurstMakesOneCall ==
    [][(changes >= 1 /\ changes' = changes + 1 /\ debounceTimers # {})
        => (lastCall' = lastCall /\ (lastCall.src = "immediate" => lastCall.n = 1))]_vars

\* C5: mounting calls fetchCalculation exactly once, at mount time; as long as
\* no input changes, no second call is made.
C5_MountCallsOnce ==
    (mounted /\ changes = 0) =>
        (lastCall.n = 1 /\ lastCall.src = "immediate" /\ lastCall.at = StartTime)

\* C6: the cache never holds more than MAX_CACHE_SIZE entries between steps
\* (an insertion with its eviction is one step).
C6_CacheBounded == Len(cache) <= MAX_CACHE_SIZE

\* a full cache took a new key, and the oldest entry (the first one) is gone
C6_Witness ==
    /\ Len(cache) = MAX_CACHE_SIZE
    /\ CacheIndex(cache, getCacheKey(2500000, 6, 11)) = MAX_CACHE_SIZE
    /\ CacheIndex(cache, FilledKey(1)) = 0

\* C7: an insertion that makes the size exceed MAX_CACHE_SIZE removes exactly
\* the entry with the smallest timestamp and leaves every other entry and the
\* new one as they are; an insertion under a key already present, or into a
\* cache with room, removes nothing.
C7_EvictsExactlyOldest ==
    [][SuccessStep =>
        LET a == inflight[1].args
            key == getCacheKey(a.cost, a.rate, a.yrs)
            new == [key |-> key, result |-> result', timestamp |-> now, hitCount |-> 1]
            at == CacheIndex(cache, key)
        IN IF at # 0 THEN cache' = [cache EXCEPT ![at] = new]
           ELSE IF Len(cache) < MAX_CACHE_SIZE THEN cache' = Append(cache, new)
           ELSE \E j \in 1..Len(cache) :
                   /\ \A k \in 1..Len(cache) :
                          k # j => cache[j].timestamp < cache[k].timestamp
                   /\ cache[j].timestamp < now
                   /\ cache' = Append(CacheDelete(cache, j), new)]_vars

\* a full cache took a new key, and the oldest entry, which was in the middle
\* of the Map's order, is gone
C7_Witness ==
    /\ Len(cache) = MAX_CACHE_SIZE
    /\ CacheIndex(cache, getCacheKey(2500000, 6, 11)) = MAX_CACHE_SIZE
    /\ CacheIndex(cache, FilledKey(25)) = 0
    /\ CacheIndex(cache, FilledKey(1)) = 1

\* a full cache took a key it already held: the entry is replaced in place
C7_OverwriteReached ==
    /\ Len(cache) = MAX_CACHE_SIZE
    /\ CacheIndex(cache, FilledKey(25)) = 25
    /\ cache[25].hitCount = 1
    /\ CacheIndex(cache, FilledKey(MAX_CACHE_SIZE)) = MAX_CACHE_SIZE

\* C8: an entry is served (published without a network call) exactly while
\* now - timestamp < CACHE_DURATION; from then on a call for its key is not
\* served from it, though the entry is still in the cache.
C8_ServedOnlyWhileFresh ==
    [][(CallStep /\ ~pendingRequestRef) =>
        \A e \in EntriesFor(cache, lastCall'.args) :
            /\ (lastCall'.outcome = "hit") <=> (now - e.timestamp < CACHE_DURATION)
            /\ lastCall'.outcome = "hit" =>
                   (result' = e.result /\ inflight' = inflight /\ sent' = sent)
            /\ lastCall'.outcome # "hit" => cache' = cache]_vars

\* an entry served in the last millisecond of its validity
C8_Witness ==
    /\ lastCall.outcome = "hit"
    /\ \E e \in EntriesFor(cache, lastCall.args) :
           lastCall.at - e.timestamp = CACHE_DURATION - 1

\* an entry not served in the first millisecond after its validity
C8_ExpiredReached ==
    /\ lastCall.outcome \in {"deferred", "sent"}
    /\ \E e \in EntriesFor(cache, lastCall.args) :
           lastCall.at - e.timestamp = CACHE_DURATION

\* C9: a response with HTTP status 429 or payload status 429 leaves
\* lastRequestTimeRef, the cache and the displayed result unchanged.
C9_RateLimitedFrame ==
    [][(/\ inflight' # inflight
        /\ \E i \in 1..Len(inflight) : \E r \in Responses :
              /\ r.net
              /\ r.http = 429 \/ r.status = 429
              /\ Respond(i, r))
        => UNCHANGED <<lastRequestTimeRef, cache, result>>]_vars

\* a 429 arrived when a result was displayed and cached
C9_Witness ==
    /\ error = Err(RATE_LIMIT_MSG)
    /\ result # Null
    /\ cache # <<>>
    /\ inflight = <<>>

\* C10: loading is true only while a fetch is in flight.
C10_LoadingOnlyInFlight == loading => (pendingRequestRef /\ Len(inflight) >= 1)

\* the indicator showing during a fetch
C10_Witness == loading /\ pendingRequestRef /\ Len(inflight) = 1

\* a step that handles a response (the suspended call runs to its end)
RespondStep == inflight # <<>> /\ inflight' # inflight

Max(a, b) == IF a >= b THEN a ELSE b

\* C11: a fetch that completes while requestQueueRef is set clears the flag
\* and schedules a retry after max(0, MIN_REQUEST_INTERVAL - (now -
\* lastRequestTimeRef)), also when that gap is zero or negative.
C11_RetryAlwaysScheduled ==
    [][(RespondStep /\ requestQueueRef) =>
        /\ ~requestQueueRef'
        /\ \E t \in retryTimers' \ retryTimers :
              t.due = now + Max(0, MIN_REQUEST_INTERVAL - (now - lastRequestTimeRef'))]_vars

\* C12: a retry timer that fires calls fetchCalculation with the inputs that
\* are current when it fires.
C12_RetryUsesLatestInputs ==
    [][(~unmounted /\ \E t \in retryTimers : RetryFire(t)) => lastCall'.args = inputs]_vars

\* C13: after teardown no call of fetchCalculation is made.
C13_NoCallAfterUnmount ==
    [][unmounted => lastCall' = lastCall]_vars

\* a response step that stored a result (the success path ran)
StoredStep == RespondStep /\ cache' # cache

\* the failure text a response carries: the rejection reason, the parse
\* error, the rate-limit text of a parsed 429, else status_msg or the fallback
MessageOf(r) ==
    IF ~r.net THEN NETWORK_MSG
    ELSE IF ~r.parses THEN PARSE_MSG
    ELSE IF r.http = 429 \/ r.status = 429 THEN RATE_LIMIT_MSG
    ELSE OrElseStr(r.status_msg, FAILED_MSG)

C15_CacheHitFrame ==
    [][(CallStep /\ lastCall'.outcome = "hit") =>
        LET a == lastCall'.args
            i == CacheIndex(cache, getCacheKey(a.cost, a.rate, a.yrs))
        IN /\ i # 0 /\ isCacheValid(cache[i].timestamp)
           /\ Len(cache') = Len(cache)
           /\ \A j \in 1..Len(cache) :
                 /\ cache'[j].key = cache[j].key
                 /\ cache'[j].timestamp = cache[j].timestamp
                 /\ cache'[j].result = cache[j].result
                 /\ cache'[j].hitCount = cache[j].hitCount + (IF j = i THEN 1 ELSE 0)
           /\ result' = cache[i].result
           /\ error' = Null
           /\ UNCHANGED <<lastRequestTimeRef, pendingRequestRef, requestQueueRef,
                          inflight, sent>>]_vars

\* an entry older than its insertion instant has been served a second time
C15_Witness ==
    /\ lastCall.outcome = "hit"
    /\ \E j \in 1..Len(cache) :
          /\ cache[j].key = getCacheKey(lastCall.args.cost, lastCall.args.rate, lastCall.args.yrs)
          /\ cache[j].hitCount >= 2
          /\ cache[j].timestamp < now
          /\ result = cache[j].result

\* a call that passed the in-flight guard and found no valid entry
MissStep ==
    /\ CallStep
    /\ ~pendingRequestRef
    /\ LET a == lastCall'.args
           i == CacheIndex(cache, getCacheKey(a.cost, a.rate, a.yrs))
       IN i = 0 \/ ~isCacheValid(cache[i].timestamp)

\* C16: on a cache miss with no request in flight a request is sent iff
\* now - lastRequestTimeRef >= MIN_REQUEST_INTERVAL; otherwise the call sets
\* requestQueueRef and leaves loading, error, result, cache,
\* lastRequestTimeRef and the in-flight flag unchanged.
C16_RateGate ==
    [][MissStep =>
        IF now - lastRequestTimeRef >= MIN_REQUEST_INTERVAL
        THEN /\ lastCall'.outcome = "sent"
             /\ inflight' = Append(inflight, [args |-> lastCall'.args, sentAt |-> now])
        ELSE /\ lastCall'.outcome = "deferred"
             /\ requestQueueRef'
             /\ UNCHANGED <<loading, error, result, cache, lastRequestTimeRef,
                            pendingRequestRef, inflight>>]_vars

\* a request has gone out exactly MIN_REQUEST_INTERVAL after the time of the
\* last success
C16_Witness ==
    /\ lastCall.outcome = "sent"
    /\ lastCall.at = now
    /\ lastRequestTimeRef > 0
    /\ now - lastRequestTimeRef = MIN_REQUEST_INTERVAL
    /\ inflight # <<>>

\* a response the service means as a success under every reading of the
\* status field: HTTP 200, parsed, status absent or 200
PlainSuccess(r) ==
    r.net /\ r.parses /\ r.http = 200 /\ r.status \in {Absent, 200}

\* C17: on a successful response the result is in the cache under the key of
\* the requested values with timestamp now and hitCount 1, it is the
\* published result, error is null and lastRequestTimeRef is the time of
\* completion.
C17_SuccessStoresAndPublishes ==
    [][RespondStep =>
        \A r \in Responses : (PlainSuccess(r) /\ Respond(1, r)) =>
            LET a == inflight[1].args
                i == CacheIndex(cache', getCacheKey(a.cost, a.rate, a.yrs))
            IN /\ i # 0
               /\ cache'[i].timestamp = now
               /\ cache'[i].hitCount = 1
               /\ cache'[i].result = result'
               /\ result'.no_years = a.yrs
               /\ result'.future_amount = OrElse(r.future_amount, 0)
               /\ error' = Null
               /\ lastRequestTimeRef' = now]_vars

\* a result is stored and published some time after its request was sent,
\* for values other than the ones now selected
C17_Witness ==
    /\ result # Null
    /\ \E j \in 1..Len(cache) :
          /\ cache[j].result = result
          /\ cache[j].timestamp = now
          /\ cache[j].hitCount = 1
          /\ lastRequestTimeRef = now
          /\ sent.last < now
          /\ sent.last = lastCall.at
          /\ lastCall.outcome = "sent"
    /\ inflight = <<>>
    /\ error = Null

\* the response signals rate limiting: HTTP 429, or status 429 in the payload
RateLimitSignal(r) == r.net /\ (r.http = 429 \/ r.status = 429)

\* C18: lastRequestTimeRef is unchanged when a request is sent, and is set to
\* the current time when the outcome is known, for a success and for a
\* failure other than a 429.
C18_ClockSetAtOutcome ==
    [][/\ CallStep => lastRequestTimeRef' = lastRequestTimeRef
       /\ RespondStep =>
             \A r \in Responses : (~RateLimitSignal(r) /\ Respond(1, r)) =>
                 lastRequestTimeRef' = now]_vars

\* C19: every response with HTTP status 429 or payload status 429 publishes
\* the rate-limit message, also when its body cannot be parsed.
C19_Every429IsRateLimit ==
    [][RespondStep =>
        \A r \in Responses : (RateLimitSignal(r) /\ Respond(1, r)) =>
            error' = Err(RATE_LIMIT_MSG)]_vars

\* a parsed response, not a 429, with a non-2xx HTTP status or a status field
\* present and different from 200
LogicalFailure(r) ==
    /\ r.net /\ r.parses /\ ~RateLimitSignal(r)
    /\ ~ResponseOk(r) \/ (r.status # Absent /\ r.status # 200)

\* C20: every such response is a failure: the error is status_msg if present,
\* else the fallback text, and nothing is cached or published.
C20_LogicalFailureIsError ==
    [][RespondStep =>
        \A r \in Responses : (LogicalFailure(r) /\ Respond(1, r)) =>
            /\ error' = Err(OrElseStr(r.status_msg, FAILED_MSG))
            /\ cache' = cache
            /\ result' = result]_vars

\* C21: every fetch that receives an outcome ends with pendingRequestRef
\* false, so a call made when no response is awaited is never dropped by the
\* in-flight guard; the flag is set exactly while a response is awaited.
C21_InFlightClearedAtOutcome ==
    [][/\ RespondStep => ~pendingRequestRef'
       /\ pendingRequestRef' <=> (inflight' # <<>>)
       /\ (CallStep /\ inflight = <<>>) => lastCall'.outcome # "dropped"]_vars

\* a second request of the session has failed and the flag is clear again
C21_Witness ==
    /\ sent.gap # None
    /\ lastCall.outcome = "sent"
    /\ inflight = <<>>
    /\ ~pendingRequestRef
    /\ error \notin {Null, Err(RATE_LIMIT_MSG)}

\* C22: at most one debounce timer is pending; an input change leaves exactly
\* one, due DEBOUNCE_DELAY from now, in place of the pending one; a timer that
\* fires makes exactly one call, with the inputs current when it fires.
C22_SingleDebounceTimer ==
    [][/\ Cardinality(debounceTimers') <= 1
       /\ inputs' # inputs =>
             debounceTimers' = {[pending |-> TRUE, due |-> now + DEBOUNCE_DELAY,
                                 args |-> inputs']}
       /\ \A t \in debounceTimers : DebounceFire(t) =>
             /\ lastCall'.n = lastCall.n + 1
             /\ lastCall'.src = "debounce"
             /\ lastCall'.args = inputs
             /\ debounceTimers' = {}]_vars

\* the timer set by the second of two input changes has fired, the first
\* one's timer never did
C22_Witness ==
    /\ changes = 2
    /\ lastCall.src = "debounce"
    /\ lastCall.args = inputs
    /\ lastCall.at < StartTime + 2 * DEBOUNCE_DELAY
    /\ debounceTimers = {}

\* C23: if the inputs stop changing at years = y (the widget staying mounted),
\* every timer fires and every request gets a successful response, then from
\* some point on the displayed result is the one for y.
C23_SettledInputIsShown ==
    \A y \in YearValues :
        <>[](inputs.yrs = y /\ ~unmounted) =>
            <>[](result # Null /\ result.no_years = y)

\* C24: requestQueueRef goes from false to true only in a state where no
\* request is in flight; a call made during a fetch returns at the guard and
\* leaves the flag as it is.
C24_QueuedOnlyWhenIdle ==
    [][/\ (~requestQueueRef /\ requestQueueRef') =>
             (~pendingRequestRef /\ inflight = <<>> /\ lastCall'.outcome = "deferred")
       /\ (CallStep /\ inflight # <<>>) =>
             (lastCall'.outcome = "dropped" /\ UNCHANGED requestQueueRef)]_vars

\* the rate gate has just parked a call, nothing being in flight, after an
\* earlier call of the session was made during a fetch
C24_Witness ==
    /\ requestQueueRef
    /\ lastCall.outcome = "deferred"
    /\ lastCall.at = now
    /\ inflight = <<>>
    /\ lastCall.n >= 3
    /\ changes = 2

Dist(a, b) == IF a >= b THEN a - b ELSE b - a

\* C26: any two distinct cache entries have timestamps at least
\* MIN_REQUEST_INTERVAL apart (so the eviction scan meets no tie).
C26_TimestampsApart ==
    \A i, j \in 1..Len(cache) :
        i # j => Dist(cache[i].timestamp, cache[j].timestamp) >= MIN_REQUEST_INTERVAL

\* two results are cached, stored exactly MIN_REQUEST_INTERVAL apart
C26_Witness ==
    /\ Len(cache) = 2
    /\ cache[2].timestamp - cache[1].timestamp = MIN_REQUEST_INTERVAL

====
